---- MODULE Spec2Model ----
(***************************************************************************)
(* Model of custom_model_runner/datarobot_drum/drum/perf_testing.py:       *)
(*   - the sampler _get_samples_df and the planner _prepare_test_cases as  *)
(*     operators, each exercised by a small specification of its own;      *)
(*   - CMRunTests.performance_test as a state machine: the main program's  *)
(*     position, the nested SIGINT handler frames, the signal dispositions,*)
(*     the pending alarm and the spawned server process;                   *)
(*   - CMRunTests.validation_test, the null value imputation check, as a   *)
(*     state machine over the temporary files it writes and removes.       *)
(***************************************************************************)
EXTENDS Integers, Sequences, FiniteSets, TLC

\* ---------------------------------------------------------------- bounds

\* Largest number of rows of a sampler input data frame.
MaxRows == 3
\* Largest sample count asked of the sampler.
MaxSamples == 7

\* Largest number of planned test cases of a run of the benchmark runner.
MaxCases == 2
\* Largest iteration count of a planned test case of the runner.
MaxIter == 3
\* The server, when it comes up at all, answers a probe after at most this
\* many failed probes.
MaxStartDelay == 1
\* Largest number of SIGINT signals delivered to the harness in one run.
MaxSigint == 1

\* Largest number of columns of the input of the null value imputation check.
MaxCols == 3

\* Cell values of the sampler's data frames (a row is one value).
RowValues == {"a", "b"}

\* Python's None for an optional integer: <<>> is None, <<n>> is n.
None == <<>>
Some(n) == <<n>>
IsNone(o) == o = <<>>
Val(o) == o[1]

\* ------------------------------------------------------------- variables

VARIABLES
    s_pc,           \* sampler harness: "call" before, "returned" after the call
    s_df,           \* sampler input data frame: a sequence of rows
    s_samples,      \* sampler input: the number of rows asked for
    s_ret,          \* sampler output
    p_pc,           \* planner harness: "call" / "returned"
    input_size,     \* os.stat(self._input_csv).st_size
    input_rows,     \* self._input_df.shape[0]
    opt_samples,    \* self.options.samples (None or an integer)
    opt_iterations, \* self.options.iterations (None or an integer)
    test_cases_to_run, \* self._test_cases_to_run
    df_for_test_rows,  \* self._df_for_test.shape[0], or None before planning
    pc,             \* performance_test: the statement the main program is at
    hstack,         \* the signal_handler frames running on top of it, innermost last
    sigint_handler, \* disposition of SIGINT
    sigalrm_handler,\* disposition of SIGALRM
    alarm_for,      \* 0: no alarm pending; c: the alarm armed for test case c
    server,         \* self._server_process: "none", "running", "exited"
    self_timeout,   \* self._timeout, the probe budget
    test_cases,     \* the planned cases the runner is given: their iteration counts
    options_timeout,\* self.options.timeout
    tc,             \* index of the current test case in test_cases (0 before the loop)
    it,             \* the loop variable i of _run_test_case (0 outside it)
    results,        \* the list results of _run_all_test_cases
    response,       \* the local variable response of _run_test_case ("none" outside it)
    sent,           \* history: predict requests sent for the current test case
    stats_sent,     \* history: stats requests sent for the current test case
    stop_calls,     \* history: calls of _stop_drum_server
    spawn_count,    \* history: subprocess.Popen calls
    expired,        \* history: the current case's deadline fired before its iterations ended
    mismatch_at,    \* history: the iteration (from 1) of the current case whose
                    \*   prediction count was found wrong at line 424; 0: none
    notok_at,       \* history: the iteration (from 1) of the current case whose
                    \*   response was found non-success at line 414; 0: none
    sigint_alive,   \* history: a SIGINT was delivered while the server was running
    handler_started,\* history: signal_handler has started
    sigints,        \* history: SIGINTs delivered
    v_pc,           \* validation_test: the statement it is at
    v_columns,      \* len(column_names); column i (from 1) is the code's column i - 1
    v_i,            \* the columns the for loop of line 528 has taken
    v_dir,          \* null_datasets_dir exists
    v_files,        \* the columns whose temporary file exists
    v_results,      \* the dict results: column -> ValidationTestResult
    v_rows2,        \* rows2 without its header: the listed (column, filename) rows
    v_retcodes      \* history: the exit code of each column's scoring subprocess

samplerVars == <<s_pc, s_df, s_samples, s_ret>>
plannerVars == <<p_pc, input_size, input_rows, opt_samples, opt_iterations,
                 test_cases_to_run, df_for_test_rows>>

ctlVars == <<pc, hstack>>
sigVars == <<sigint_handler, sigalrm_handler, alarm_for>>
srvVars == <<server, self_timeout>>
inpVars == <<test_cases, options_timeout>>
caseVars == <<tc, it, results, response>>
histVars == <<sent, stats_sent, stop_calls, spawn_count, expired, mismatch_at,
              notok_at, sigint_alive, handler_started, sigints>>
runnerVars == <<ctlVars, sigVars, srvVars, inpVars, caseVars, histVars>>
validationVars == <<v_pc, v_columns, v_i, v_dir, v_files, v_results, v_rows2,
                    v_retcodes>>

\* ------------------------------------------------------- pandas helpers

\* df.head(n=k) for k >= 0: the first min(k, nrows) rows.
head(df, k) == SubSeq(df, 1, IF k <= Len(df) THEN k ELSE Len(df))

\* pd.concat([df] * m, ignore_index=True): m copies of df, one after another.
RECURSIVE concat_copies(_, _)
concat_copies(df, m) == IF m <= 0 THEN <<>> ELSE df \o concat_copies(df, m - 1)

\* ---------------------------------------------------------------- sampler

\* The sampler with the remainder rows left out (a plausible slip: the
\* append of df.head(remainder) forgotten).
get_samples_df_no_remainder(df, samples) ==
    LET nrows == Len(df) IN
    IF nrows >= samples
    THEN head(df, samples)
    ELSE concat_copies(df, samples \div nrows)

\* _get_samples_df(df, samples), lines 45-54.  int(samples / nrows) is a float
\* division truncated; for 0 <= samples < 2^53 it is the integer quotient.
get_samples_df(df, samples) ==
    LET nrows == Len(df) IN
    IF nrows >= samples
    THEN head(df, samples)
    ELSE LET multiplier == samples \div nrows
             remainder == samples % nrows
             ret_df == concat_copies(df, multiplier)
         IN  ret_df \o head(df, remainder)

\* Non-empty data frames of at most MaxRows rows.
DataFrames == UNION {[1..k -> RowValues] : k \in 1..MaxRows}

SamplerInit ==
    /\ s_pc = "call"
    /\ s_df \in DataFrames
    /\ s_samples \in 0..MaxSamples
    /\ s_ret = <<>>

SamplerIdle ==
    /\ s_pc = "idle"
    /\ s_df = <<>>
    /\ s_samples = 0
    /\ s_ret = <<>>

SamplerCall ==
    /\ s_pc = "call"
    /\ s_ret' = get_samples_df(s_df, s_samples)
    /\ s_pc' = "returned"
    /\ UNCHANGED <<s_df, s_samples>>

\* ---------------------------------------------------------------- planner

\* 50 * 1048576, the target CSV size of line 273.
TargetCsvSize == 52428800

\* Input file sizes (bytes) and row counts the planner is tried on.  A CSV of
\* r rows holds a header line and r lines of at least two bytes each.
FileSizes == {100, 1024, 2048, 104858, 52428800, 104857600}
RowCounts == {1, 3, 7, 40}
OptSamples == {None, Some(1), Some(5), Some(20)}
OptIterations == {None, Some(1), Some(3)}

\* _get_approximate_samples_in_csv_size(file, target_csv_size), lines 57-61:
\* int(rows * (target / file_size)) + 1.  The float product truncated equals
\* the integer quotient for every (file_size, rows) of FileSizes x RowCounts.
get_approximate_samples_in_csv_size(rows, file_size, target_csv_size) ==
    ((rows * target_csv_size) \div file_size) + 1

\* _get_size_and_units(size), lines 266-270.
get_size_and_units(size) ==
    IF size < 1024 THEN <<size, "bytes">> ELSE <<size \div 1024, "KB">>

PerfTestCase(name, samples, iterations) ==
    [name |-> name, samples |-> samples, iterations |-> iterations]

\* _default_test_cases, lines 279-284.
default_test_cases(sample_size, samples_in_50mb) ==
    << PerfTestCase(get_size_and_units(sample_size), 1, 100),
       PerfTestCase(<<"0.1MB">>, samples_in_50mb \div 500, 50),
       PerfTestCase(<<"10MB">>, samples_in_50mb \div 5, 5),
       PerfTestCase(<<"50MB">>, samples_in_50mb, 1) >>

\* Override mode with the samples default taken as one row, not the row count
\* of the input (a plausible slip: the default of the first ladder case).
override_test_cases_one_sample(sample_size, rows, o_samples, o_iterations) ==
    LET iters == IF IsNone(o_iterations) THEN 1 ELSE Val(o_iterations)
        samples == IF IsNone(o_samples) THEN 1 ELSE Val(o_samples)
        samples_size == samples * sample_size
    IN  << PerfTestCase(get_size_and_units(samples_size), samples, iters) >>

\* The single test case of override mode, lines 288-295.
override_test_cases(sample_size, rows, o_samples, o_iterations) ==
    LET iters == IF IsNone(o_iterations) THEN 1 ELSE Val(o_iterations)
        samples == IF IsNone(o_samples) THEN rows ELSE Val(o_samples)
        samples_size == samples * sample_size
    IN  << PerfTestCase(get_size_and_units(samples_size), samples, iters) >>

PlannerInit ==
    /\ p_pc = "call"
    /\ input_size \in FileSizes
    /\ input_rows \in RowCounts
    /\ input_size >= 2 * (input_rows + 1)
    /\ opt_samples \in OptSamples
    /\ opt_iterations \in OptIterations
    /\ test_cases_to_run = <<>>
    /\ df_for_test_rows = None

PlannerIdle ==
    /\ p_pc = "idle"
    /\ input_size = 0
    /\ input_rows = 0
    /\ opt_samples = None
    /\ opt_iterations = None
    /\ test_cases_to_run = <<>>
    /\ df_for_test_rows = None

\* _prepare_test_cases, lines 260-296.  In default mode the working sample
\* df_50mb = _get_samples_df(input_df, samples_in_50mb) has samples_in_50mb
\* rows (the sampler's row count, see SamplerRowsExact); only its row count is
\* kept here.
prepare_test_cases ==
    /\ p_pc = "call"
    /\ LET sample_size == input_size \div input_rows IN
       IF IsNone(opt_iterations) /\ IsNone(opt_samples)
       THEN LET samples_in_50mb == get_approximate_samples_in_csv_size(
                                       input_rows, input_size, TargetCsvSize)
            IN  /\ test_cases_to_run' = default_test_cases(sample_size, samples_in_50mb)
                /\ df_for_test_rows' = Some(samples_in_50mb)
       ELSE /\ test_cases_to_run' = override_test_cases(
                                       sample_size, input_rows, opt_samples, opt_iterations)
            /\ df_for_test_rows' = Some(input_rows)
    /\ p_pc' = "returned"
    /\ UNCHANGED <<input_size, input_rows, opt_samples, opt_iterations>>

\* ----------------------------------------------------- benchmark runner

\* The initial value of self._timeout, line 236: the probe budget.
InitialTimeout == 20

\* TestCaseResults.__init__, lines 91-99.  The field case stands for name:
\* it tells which planned test case the result belongs to.
TestCaseResults(c) ==
    [case |-> c, prediction_ok |-> FALSE, prediction_error |-> "None",
     server_stats |-> "None"]

\* The positions at which the program has ended.
Raised == {"raised_DrumCommonException", "raised_KeyboardInterrupt",
           "raised_DrumPerfTestTimeout"}
Killed == {"killed_SIGINT", "killed_SIGALRM"}
Terminated == pc \in ({"done", "sys_exit"} \cup Raised \cup Killed)

\* Positions inside the try block of lines 447-448, that is, inside
\* _run_test_case.
TryBody == {"tc_start", "tc_append", "tc_sample", "iter_head", "post",
            "post_wait", "check_ok", "check_count", "stats_get", "stats_wait"}

\* Positions of _run_test_case at which the iterations of the case have not
\* all completed.
Iterating == {"tc_start", "tc_append", "tc_sample", "iter_head", "post",
              "post_wait", "check_ok", "check_count"}

\* The main program is at statement p and no signal handler is running.
Main(p) == pc = p /\ hstack = <<>>

\* The lists of planned cases the runner is given, as iteration counts.
\* _prepare_test_cases yields one case (lines 293-295) or a ladder whose
\* iteration counts fall from case to case (100, 50, 5, 1, lines 279-284).
PlannedCases ==
    UNION {{f \in [1..n -> 1..MaxIter] : \A c \in 1..(n - 1) : f[c] > f[c + 1]}
               : n \in 1..MaxCases}

\* The state after CMRunTests.__init__ (lines 223-240), with the planned cases
\* and options.timeout the run is given.  options.timeout is 0 (signal.alarm(0)
\* arms nothing) or positive; time itself is not modelled, so 1 stands for
\* every positive value.
RunnerInit ==
    /\ pc = "prepare"
    /\ hstack = <<>>
    /\ sigint_handler = "default_int_handler"
    /\ sigalrm_handler = "SIG_DFL"
    /\ alarm_for = 0
    /\ server = "none"
    /\ self_timeout = InitialTimeout
    /\ test_cases \in PlannedCases
    /\ options_timeout \in {0, 1}
    /\ tc = 0
    /\ it = 0
    /\ results = <<>>
    /\ response = "none"
    /\ sent = 0
    /\ stats_sent = 0
    /\ stop_calls = 0
    /\ spawn_count = 0
    /\ expired = FALSE
    /\ mismatch_at = 0
    /\ notok_at = 0
    /\ sigint_alive = FALSE
    /\ handler_started = FALSE
    /\ sigints = 0

RunnerIdle ==
    /\ pc = "idle"
    /\ hstack = <<>>
    /\ sigint_handler = "default_int_handler"
    /\ sigalrm_handler = "SIG_DFL"
    /\ alarm_for = 0
    /\ server = "none"
    /\ self_timeout = InitialTimeout
    /\ test_cases = <<>>
    /\ options_timeout = 0
    /\ tc = 0
    /\ it = 0
    /\ results = <<>>
    /\ response = "none"
    /\ sent = 0
    /\ stats_sent = 0
    /\ stop_calls = 0
    /\ spawn_count = 0
    /\ expired = FALSE
    /\ mismatch_at = 0
    /\ notok_at = 0
    /\ sigint_alive = FALSE
    /\ handler_started = FALSE
    /\ sigints = 0

\* ---- performance_test up to the test-case loop

\* Lines 481-490: the test cases are prepared, a stale server is killed and
\* the port is checked; a port in use raises DrumCommonException before any
\* server is spawned.
port_check ==
    /\ Main("prepare")
    /\ \E in_use \in BOOLEAN :
           pc' = IF in_use THEN "raised_DrumCommonException" ELSE "popen"
    /\ UNCHANGED <<hstack, sigVars, srvVars, inpVars, caseVars, histVars>>

\* _start_drum_server, lines 359-371: subprocess.Popen spawns the server.
popen ==
    /\ Main("popen")
    /\ server' = "running"
    /\ spawn_count' = spawn_count + 1
    /\ pc' = "probe"
    /\ UNCHANGED <<hstack, sigVars, self_timeout, inpVars, caseVars, sent,
                   stats_sent, stop_calls, expired, mismatch_at, notok_at,
                   sigint_alive, handler_started, sigints>>

\* _wait_for_server_to_start, lines 300-305: one liveness probe.  Only a
\* running server can answer it, and a server that comes up does so within
\* MaxStartDelay failed probes; any exception is swallowed.
probe ==
    /\ Main("probe")
    /\ \E ok \in BOOLEAN :
           /\ ok => (server = "running" /\ InitialTimeout - self_timeout <= MaxStartDelay)
           /\ pc' = IF ok THEN "init_signals" ELSE "sleep_dec"
    /\ UNCHANGED <<hstack, sigVars, srvVars, inpVars, caseVars, histVars>>

\* Lines 307-309: sleep, count the budget down, give up at zero.
sleep_dec ==
    /\ Main("sleep_dec")
    /\ self_timeout' = self_timeout - 1
    /\ pc' = IF self_timeout' = 0 THEN "communicate" ELSE "probe"
    /\ UNCHANGED <<hstack, sigVars, server, inpVars, caseVars, histVars>>

\* Lines 310-316: Popen.communicate() returns only once the server process
\* has ended; then DrumCommonException is raised.  Nothing catches it in
\* _start_drum_server or performance_test.
communicate ==
    /\ Main("communicate")
    /\ server = "exited"
    /\ pc' = "raised_DrumCommonException"
    /\ UNCHANGED <<hstack, sigVars, srvVars, inpVars, caseVars, histVars>>

\* _init_signals, lines 455-467.
init_signals ==
    /\ Main("init_signals")
    /\ sigint_handler' = "signal_handler"
    /\ sigalrm_handler' = "testcase_timeout"
    /\ pc' = "loop"
    /\ UNCHANGED <<hstack, alarm_for, srvVars, inpVars, caseVars, histVars>>

\* The server process ends by itself (a crash, or its own shutdown).
ServerExit ==
    /\ server = "running"
    /\ ~Terminated
    /\ server' = "exited"
    /\ UNCHANGED <<ctlVars, sigVars, self_timeout, inpVars, caseVars, histVars>>

\* ---- _run_all_test_cases and _run_test_case

\* tc_results of the running _run_test_case is the result appended last.
SetResult(field, value) ==
    [results EXCEPT ![Len(results)] = [@ EXCEPT ![field] = value]]

\* Line 444: the for loop takes the next planned case, or the loop ends and
\* _run_all_test_cases returns results (line 453).  The per-case history
\* starts afresh with a new case.
loop ==
    /\ Main("loop")
    /\ IF tc < Len(test_cases)
       THEN /\ tc' = tc + 1
            /\ pc' = "loop_print"
            /\ sent' = 0
            /\ stats_sent' = 0
            /\ expired' = FALSE
            /\ mismatch_at' = 0
            /\ notok_at' = 0
       ELSE /\ tc' = tc
            /\ pc' = "reset_signals"
            /\ UNCHANGED <<sent, stats_sent, expired, mismatch_at, notok_at>>
    /\ UNCHANGED <<hstack, sigVars, srvVars, inpVars, it, results, response,
                   stop_calls, spawn_count, sigint_alive, handler_started, sigints>>

\* Line 445: the print ahead of arming the alarm.
loop_print ==
    /\ Main("loop_print")
    /\ pc' = "alarm"
    /\ UNCHANGED <<hstack, sigVars, srvVars, inpVars, caseVars, histVars>>

\* Line 446: signal.alarm(options.timeout) replaces any pending alarm; with 0
\* it only cancels.  The try block is entered next.
alarm ==
    /\ Main("alarm")
    /\ alarm_for' = IF options_timeout > 0 THEN tc ELSE 0
    /\ pc' = "tc_start"
    /\ UNCHANGED <<hstack, sigint_handler, sigalrm_handler, srvVars, inpVars,
                   caseVars, histVars>>

\* Lines 385-396: the print, the stats collector, the TestCaseResults object.
tc_start ==
    /\ Main("tc_start")
    /\ pc' = "tc_append"
    /\ UNCHANGED <<hstack, sigVars, srvVars, inpVars, caseVars, histVars>>

\* Line 397: results.append(tc_results).
tc_append ==
    /\ Main("tc_append")
    /\ results' = Append(results, TestCaseResults(tc))
    /\ pc' = "tc_sample"
    /\ UNCHANGED <<hstack, sigVars, srvVars, inpVars, tc, it, response, histVars>>

\* Lines 399-403: the payload is sampled and serialised once.
tc_sample ==
    /\ Main("tc_sample")
    /\ it' = 0
    /\ pc' = "iter_head"
    /\ UNCHANGED <<hstack, sigVars, srvVars, inpVars, tc, results, response, histVars>>

\* Line 404: for i in range(tc.iterations); after the last iteration, line 434.
iter_head ==
    /\ Main("iter_head")
    /\ pc' = IF it < test_cases[tc] THEN "post" ELSE "stats_get"
    /\ UNCHANGED <<hstack, sigVars, srvVars, inpVars, caseVars, histVars>>

\* Lines 405-411: the predict request goes out.
post ==
    /\ Main("post")
    /\ sent' = sent + 1
    /\ pc' = "post_wait"
    /\ UNCHANGED <<hstack, sigVars, srvVars, inpVars, caseVars, stats_sent,
                   stop_calls, spawn_count, expired, mismatch_at, notok_at,
                   sigint_alive, handler_started, sigints>>

\* requests.post returns a response (only a running server answers) or raises
\* (a connection error), which the except Exception of line 451 catches.
post_wait ==
    /\ Main("post_wait")
    /\ \/ /\ server = "running"
          /\ response' \in {"ok_match", "ok_mismatch", "not_ok"}
          /\ it' = it
          /\ pc' = "check_ok"
       \/ /\ response' = "none"
          /\ it' = 0
          /\ pc' = "exc_print"
    /\ UNCHANGED <<hstack, sigVars, srvVars, inpVars, tc, results, histVars>>

\* Lines 414-421 with the return of the failure branch left out: the case goes
\* on to its next iteration after a non-success response.
check_ok_no_return ==
    /\ Main("check_ok")
    /\ IF response \in {"ok_match", "ok_mismatch"}
       THEN /\ results' = SetResult("prediction_ok", TRUE)
            /\ pc' = "check_count"
            /\ UNCHANGED <<notok_at, it, response>>
       ELSE /\ results' = [results EXCEPT ![Len(results)] =
                              [@ EXCEPT !.prediction_ok = FALSE,
                                        !.prediction_error = "response.text"]]
            /\ notok_at' = it + 1
            /\ it' = it + 1
            /\ response' = response
            /\ pc' = "iter_head"
    /\ UNCHANGED <<hstack, sigVars, srvVars, inpVars, tc, sent,
                   stats_sent, stop_calls, spawn_count, expired, mismatch_at,
                   sigint_alive, handler_started, sigints>>

\* Lines 413-421: a success response sets prediction_ok; a non-success one
\* clears it, stores response.text and returns from _run_test_case, which ends
\* the try block normally.
check_ok ==
    /\ Main("check_ok")
    /\ IF response \in {"ok_match", "ok_mismatch"}
       THEN /\ results' = SetResult("prediction_ok", TRUE)
            /\ pc' = "check_count"
            /\ UNCHANGED <<notok_at, it, response>>
       ELSE /\ results' = [results EXCEPT ![Len(results)] =
                              [@ EXCEPT !.prediction_ok = FALSE,
                                        !.prediction_error = "response.text"]]
            /\ notok_at' = it + 1
            /\ it' = 0
            /\ response' = "none"
            /\ pc' = "loop"
    /\ UNCHANGED <<hstack, sigVars, srvVars, inpVars, tc, sent,
                   stats_sent, stop_calls, spawn_count, expired, mismatch_at,
                   sigint_alive, handler_started, sigints>>

\* Lines 423-433: a wrong prediction count fails the assert of line 431 (an
\* AssertionError, caught by the except Exception of line 451; the interpreter
\* runs with assertions enabled, its default); otherwise the next iteration
\* follows.
check_count ==
    /\ Main("check_count")
    /\ IF response = "ok_mismatch"
       THEN /\ mismatch_at' = it + 1
            /\ it' = 0
            /\ response' = "none"
            /\ pc' = "exc_print"
       ELSE /\ mismatch_at' = mismatch_at
            /\ it' = it + 1
            /\ response' = response
            /\ pc' = "iter_head"
    /\ UNCHANGED <<hstack, sigVars, srvVars, inpVars, tc, results,
                   sent, stats_sent, stop_calls, spawn_count, expired, notok_at,
                   sigint_alive, handler_started, sigints>>

\* Lines 434-437: the stats request goes out.
stats_get ==
    /\ Main("stats_get")
    /\ stats_sent' = stats_sent + 1
    /\ pc' = "stats_wait"
    /\ UNCHANGED <<hstack, sigVars, srvVars, inpVars, caseVars, sent,
                   stop_calls, spawn_count, expired, mismatch_at, notok_at,
                   sigint_alive, handler_started, sigints>>

\* Lines 437-440: requests.get returns; a success response is attached, a
\* non-success one is dropped, an exception goes to the except Exception of
\* line 451.
stats_wait ==
    /\ Main("stats_wait")
    /\ \/ /\ server = "running"
          /\ results' = SetResult("server_stats", "response.text")
          /\ pc' = "loop"
       \/ /\ server = "running"
          /\ results' = results
          /\ pc' = "loop"
       \/ /\ results' = results
          /\ pc' = "exc_print"
    /\ it' = 0
    /\ response' = "none"
    /\ UNCHANGED <<hstack, sigVars, srvVars, inpVars, tc, histVars>>

\* Line 450, the handler of except DrumPerfTestTimeout.
exc_timeout_print ==
    /\ Main("exc_timeout_print")
    /\ pc' = "loop"
    /\ UNCHANGED <<hstack, sigVars, srvVars, inpVars, caseVars, histVars>>

\* Line 452, the handler of except Exception.
exc_print ==
    /\ Main("exc_print")
    /\ pc' = "loop"
    /\ UNCHANGED <<hstack, sigVars, srvVars, inpVars, caseVars, histVars>>

\* ---- the end of performance_test

\* _reset_signals, lines 469-471.
reset_signals ==
    /\ Main("reset_signals")
    /\ sigint_handler' = "SIG_DFL"
    /\ sigalrm_handler' = "SIG_DFL"
    /\ pc' = "stop_call"
    /\ UNCHANGED <<hstack, alarm_for, srvVars, inpVars, caseVars, histVars>>

\* Line 498: _stop_drum_server is called (line 375).
stop_call ==
    /\ Main("stop_call")
    /\ stop_calls' = stop_calls + 1
    /\ pc' = "stop_post"
    /\ UNCHANGED <<hstack, sigVars, srvVars, inpVars, caseVars, sent, stats_sent,
                   spawn_count, expired, mismatch_at, notok_at, sigint_alive,
                   handler_started, sigints>>

\* Lines 376-379: the shutdown request, at most 5 seconds; a read timeout or
\* a connection error is swallowed.
stop_post ==
    /\ Main("stop_post")
    /\ pc' = "stop_kill"
    /\ UNCHANGED <<hstack, sigVars, srvVars, inpVars, caseVars, histVars>>

\* Lines 380-382, the finally block: os.kill(pid, SIGINT) ends the server.
stop_kill ==
    /\ Main("stop_kill")
    /\ server' = "exited"
    /\ pc' = "report"
    /\ UNCHANGED <<hstack, sigVars, self_timeout, inpVars, caseVars, histVars>>

\* Lines 499-505: the report is rendered and performance_test returns.
report ==
    /\ Main("report")
    /\ pc' = "done"
    /\ UNCHANGED <<hstack, sigVars, srvVars, inpVars, caseVars, histVars>>

\* ---- signals

Top == hstack[Len(hstack)]
ReplaceTop(p) == [hstack EXCEPT ![Len(hstack)] = p]

\* An exception passing through a frame of _stop_drum_server that is inside
\* the try of lines 376-379 runs the finally block, lines 380-382: os.kill.
FinallyKills(frames) == \E k \in 1..Len(frames) : frames[k] = "h_stop_post"

\* The iterations of the current case have not all completed.
IterationsPending ==
    /\ pc \in Iterating
    /\ ~(pc = "iter_head" /\ it >= test_cases[tc])

\* SIGINT arrives (Ctrl+C).  Before _init_signals Python's default handler
\* raises KeyboardInterrupt, which nothing in performance_test catches; after
\* it signal_handler (lines 456-461) starts on top of whatever is running;
\* after _reset_signals the default action ends the process.
SigInt ==
    /\ ~Terminated
    /\ sigints < MaxSigint
    /\ sigints' = sigints + 1
    /\ sigint_alive' = (sigint_alive \/ server = "running")
    /\ CASE sigint_handler = "default_int_handler" ->
              /\ pc' = "raised_KeyboardInterrupt"
              /\ UNCHANGED <<hstack, handler_started>>
         [] sigint_handler = "signal_handler" ->
              /\ hstack' = Append(hstack, "h_print")
              /\ handler_started' = TRUE
              /\ pc' = pc
         [] sigint_handler = "SIG_DFL" ->
              /\ pc' = "killed_SIGINT"
              /\ UNCHANGED <<hstack, handler_started>>
    /\ UNCHANGED <<sigVars, srvVars, inpVars, caseVars, sent, stats_sent,
                   stop_calls, spawn_count, expired, mismatch_at, notok_at>>

\* The pending alarm expires and SIGALRM arrives.  testcase_timeout (lines
\* 463-464) raises DrumPerfTestTimeout in whatever is running: every running
\* signal_handler frame is unwound (a frame inside the try of
\* _stop_drum_server runs its finally), then the exception reaches the main
\* program, where only the try block of lines 447-450 catches it.  With the
\* default disposition (after _reset_signals) SIGALRM ends the process.
AlarmFire ==
    /\ ~Terminated
    /\ alarm_for # 0
    /\ alarm_for' = 0
    /\ IF sigalrm_handler = "testcase_timeout"
       THEN /\ hstack' = <<>>
            /\ server' = IF FinallyKills(hstack) THEN "exited" ELSE server
            /\ pc' = IF pc \in TryBody THEN "exc_timeout_print"
                     ELSE "raised_DrumPerfTestTimeout"
            /\ expired' = (expired \/ IterationsPending)
            /\ it' = 0
            /\ response' = "none"
       ELSE /\ pc' = "killed_SIGALRM"
            /\ UNCHANGED <<hstack, server, expired, it, response>>
    /\ UNCHANGED <<sigint_handler, sigalrm_handler, self_timeout, inpVars,
                   tc, results, sent, stats_sent, stop_calls, spawn_count,
                   mismatch_at, notok_at, sigint_alive, handler_started, sigints>>

\* signal_handler, lines 457-459: the prints, then _stop_drum_server is
\* called.
h_print ==
    /\ hstack # <<>> /\ Top = "h_print"
    /\ stop_calls' = stop_calls + 1
    /\ hstack' = ReplaceTop("h_stop_post")
    /\ UNCHANGED <<pc, sigVars, srvVars, inpVars, caseVars, sent, stats_sent,
                   spawn_count, expired, mismatch_at, notok_at, sigint_alive,
                   handler_started, sigints>>

\* _stop_drum_server in the handler, lines 376-379: the shutdown request.
h_stop_post ==
    /\ hstack # <<>> /\ Top = "h_stop_post"
    /\ hstack' = ReplaceTop("h_stop_kill")
    /\ UNCHANGED <<pc, sigVars, srvVars, inpVars, caseVars, histVars>>

\* _stop_drum_server in the handler, lines 380-382: os.kill(pid, SIGINT).
h_stop_kill ==
    /\ hstack # <<>> /\ Top = "h_stop_kill"
    /\ server' = "exited"
    /\ hstack' = ReplaceTop("h_exit")
    /\ UNCHANGED <<pc, sigVars, self_timeout, inpVars, caseVars, histVars>>

\* signal_handler, lines 460-461: sys.exit(0) raises SystemExit, which
\* unwinds every frame beneath and ends the program (except Exception does
\* not catch it).
h_exit ==
    /\ hstack # <<>> /\ Top = "h_exit"
    /\ hstack' = <<>>
    /\ server' = IF FinallyKills(hstack) THEN "exited" ELSE server
    /\ pc' = "sys_exit"
    /\ UNCHANGED <<sigVars, self_timeout, inpVars, caseVars, histVars>>

\* ------------------------------------------------ null value imputation check

\* Exit codes of a scoring subprocess as Popen.wait() returns them: 0 for
\* success, a positive code for a failure, -N for a process ended by signal N.
RetCodes == {0, 1, -9}

\* The path of the temporary file of column i, lines 529-531; the file of a
\* column is told apart by the column's index.
tmp_dataset_file_path(i) == i

\* ValidationTestResult(filename, retcode), line 512.
ValidationTestResult(filename, retcode) ==
    [filename |-> filename, retcode |-> retcode]

\* The state at the call of validation_test, over an input of at least one
\* column (pd.read_csv names the columns apart).
ValidationInit ==
    /\ v_pc = "mkdtemp"
    /\ v_columns \in 1..MaxCols
    /\ v_i = 0
    /\ v_dir = FALSE
    /\ v_files = {}
    /\ v_results = <<>>
    /\ v_rows2 = <<>>
    /\ v_retcodes = <<>>

ValidationIdle ==
    /\ v_pc = "idle"
    /\ v_columns = 0
    /\ v_i = 0
    /\ v_dir = FALSE
    /\ v_files = {}
    /\ v_results = <<>>
    /\ v_rows2 = <<>>
    /\ v_retcodes = <<>>

\* Lines 521-526: the temporary directory is made, results starts empty.
v_mkdtemp ==
    /\ v_pc = "mkdtemp"
    /\ v_dir' = TRUE
    /\ v_results' = <<>>
    /\ v_pc' = "for"
    /\ UNCHANGED <<v_columns, v_i, v_files, v_rows2, v_retcodes>>

\* Lines 528-537: the for loop takes the next column and writes its variant
\* to the temporary file; after the last column, line 544 follows.
v_to_csv ==
    /\ v_pc = "for"
    /\ IF v_i < v_columns
       THEN /\ v_i' = v_i + 1
            /\ v_files' = v_files \cup {tmp_dataset_file_path(v_i + 1)}
            /\ v_pc' = "wait"
       ELSE /\ v_pc' = "branch"
            /\ UNCHANGED <<v_i, v_files>>
    /\ UNCHANGED <<v_columns, v_dir, v_results, v_rows2, v_retcodes>>

\* Lines 539-542: the scoring subprocess runs to its end; a non-zero exit
\* code is stored in results under the column, a zero one is not stored.
v_wait ==
    /\ v_pc = "wait"
    /\ \E retcode \in RetCodes :
           /\ v_retcodes' = Append(v_retcodes, retcode)
           /\ v_results' =
                  IF retcode # 0
                  THEN (v_i :> ValidationTestResult(tmp_dataset_file_path(v_i), retcode))
                           @@ v_results
                  ELSE v_results
    /\ v_pc' = "for"
    /\ UNCHANGED <<v_columns, v_i, v_dir, v_files, v_rows2>>

\* Line 559, len(results) == 0: lines 560-562, shutil.rmtree removes the
\* directory and every file in it, and the report is printed (lines 601-606).
v_passed ==
    /\ v_pc = "branch"
    /\ DOMAIN v_results = {}
    /\ v_files' = {}
    /\ v_dir' = FALSE
    /\ v_pc' = "returned"
    /\ UNCHANGED <<v_columns, v_i, v_results, v_rows2, v_retcodes>>

\* Line 559, len(results) > 0: lines 564-570, os.remove for every entry of
\* results whose retcode is zero.
v_remove ==
    /\ v_pc = "branch"
    /\ DOMAIN v_results # {}
    /\ v_files' = v_files \
                     {v_results[c].filename :
                          c \in {d \in DOMAIN v_results : v_results[d].retcode = 0}}
    /\ v_pc' = "list"
    /\ UNCHANGED <<v_columns, v_i, v_dir, v_results, v_rows2, v_retcodes>>

\* Lines 591-594: every entry of results whose retcode is non-zero is listed
\* with its file name, in the order of insertion (the order of the columns);
\* the report is printed (lines 596-606).
v_list ==
    /\ v_pc = "list"
    /\ LET keys == SelectSeq([c \in 1..v_columns |-> c],
                             LAMBDA c : c \in DOMAIN v_results)
           failed == SelectSeq(keys, LAMBDA c : v_results[c].retcode # 0)
       IN  v_rows2' = [k \in 1..Len(failed) |->
                          <<failed[k], v_results[failed[k]].filename>>]
    /\ v_pc' = "returned"
    /\ UNCHANGED <<v_columns, v_i, v_dir, v_files, v_results, v_retcodes>>

\* --------------------------------------------------------- specifications

vars == <<samplerVars, plannerVars, runnerVars, validationVars>>

\* The sampler alone: every input, one call.
SamplerSpecInit == SamplerInit /\ PlannerIdle /\ RunnerIdle /\ ValidationIdle
SamplerNext == SamplerCall /\ UNCHANGED <<plannerVars, runnerVars, validationVars>>
SamplerSpec == SamplerSpecInit /\ [][SamplerNext]_vars

\* The planner alone: every input, one call.
PlannerSpecInit == PlannerInit /\ SamplerIdle /\ RunnerIdle /\ ValidationIdle
PlannerNext == prepare_test_cases /\ UNCHANGED <<samplerVars, runnerVars, validationVars>>
PlannerSpec == PlannerSpecInit /\ [][PlannerNext]_vars

\* The null value imputation check alone: every column count, every
\* combination of exit codes.
ValidationSpecInit == ValidationInit /\ SamplerIdle /\ PlannerIdle /\ RunnerIdle
Validate(A) == A /\ UNCHANGED <<samplerVars, plannerVars, runnerVars>>
ValidationNext ==
    \/ Validate(v_mkdtemp)
    \/ Validate(v_to_csv)
    \/ Validate(v_wait)
    \/ Validate(v_passed)
    \/ Validate(v_remove)
    \/ Validate(v_list)
ValidationSpec == ValidationSpecInit /\ [][ValidationNext]_vars

\* A step of the runner leaves the other harnesses alone.
Run(A) == A /\ UNCHANGED <<samplerVars, plannerVars, validationVars>>

Init == RunnerInit /\ SamplerIdle /\ PlannerIdle /\ ValidationIdle

\* The steps of the harness up to the return of _start_drum_server.
StartStep ==
    \/ Run(port_check)
    \/ Run(popen)
    \/ Run(probe)
    \/ Run(sleep_dec)
    \/ Run(communicate)

StartNext ==
    \/ StartStep
    \/ Run(ServerExit)

\* Server start alone.  The harness is a running process, so a step of it
\* that can be taken is taken (weak fairness); nothing makes the server
\* process end.
StartSpec == Init /\ [][StartNext]_vars /\ WF_vars(StartStep)

Next ==
    \/ Run(port_check)
    \/ Run(popen)
    \/ Run(probe)
    \/ Run(sleep_dec)
    \/ Run(communicate)
    \/ Run(init_signals)
    \/ Run(ServerExit)
    \/ Run(loop)
    \/ Run(loop_print)
    \/ Run(alarm)
    \/ Run(tc_start)
    \/ Run(tc_append)
    \/ Run(tc_sample)
    \/ Run(iter_head)
    \/ Run(post)
    \/ Run(post_wait)
    \/ Run(check_ok)
    \/ Run(check_count)
    \/ Run(stats_get)
    \/ Run(stats_wait)
    \/ Run(exc_timeout_print)
    \/ Run(exc_print)
    \/ Run(reset_signals)
    \/ Run(stop_call)
    \/ Run(stop_post)
    \/ Run(stop_kill)
    \/ Run(report)
    \/ Run(SigInt)
    \/ Run(AlarmFire)
    \/ Run(h_print)
    \/ Run(h_stop_post)
    \/ Run(h_stop_kill)
    \/ Run(h_exit)

Spec == Init /\ [][Next]_vars

\* ------------------------------------------------------------------ claims

Last(seq) == seq[Len(seq)]

\* The result appended last belongs to the current test case.
HasResult == results # <<>> /\ Last(results).case = tc

\* Positions inside _run_all_test_cases (lines 443-453).
RunAllPositions ==
    TryBody \cup {"loop", "loop_print", "alarm", "exc_timeout_print", "exc_print"}

\* C1 as claimed: no timeout propagates out of _run_all_test_cases, and when
\* it returns, results holds exactly one TestCaseResults per planned case, in
\* planning order.
OneResultPerCase ==
    [][ /\ (pc \in RunAllPositions => pc' # "raised_DrumPerfTestTimeout")
        /\ ((pc = "loop" /\ pc' = "reset_signals") =>
               /\ Len(results') = Len(test_cases)
               /\ \A k \in 1..Len(results') : results'[k].case = k) ]_vars

\* C2 as claimed: a case whose deadline expired before its iterations were
\* all done has prediction_ok false.
TimedOutCaseMarkedFailed ==
    (expired /\ HasResult) => Last(results).prediction_ok = FALSE

\* C3 as claimed: after a prediction-count mismatch no further predict request
\* of the case is sent and the case's result has prediction_ok false.
MismatchRecordedAsFailure ==
    mismatch_at # 0 =>
        /\ sent = mismatch_at
        /\ HasResult
        /\ Last(results).prediction_ok = FALSE

\* The state part of C4: once iteration k of the current case was found to
\* have a non-success response, the case's result has prediction_ok false and
\* prediction_error equal to the response text, and k predict requests were
\* sent for the case.
NotOkRecorded ==
    notok_at # 0 =>
        /\ HasResult
        /\ Last(results).prediction_ok = FALSE
        /\ Last(results).prediction_error = "response.text"
        /\ sent = notok_at

InterruptShutsServerDown ==
    (Terminated /\ sigint_alive) => stop_calls >= 1

\* C6 as claimed: once signal_handler has started, no further test case is
\* started and no further predict request is sent.
AbortHasPriority ==
    [][handler_started => (tc' = tc /\ sent' = sent)]_vars

\* C7 as claimed: the server is spawned at most once, and an execution that
\* spawned it has called _stop_drum_server exactly once when it ends.
OneSpawnOneShutdown ==
    /\ spawn_count <= 1
    /\ (Terminated /\ spawn_count = 1) => stop_calls = 1

\* C8 as claimed: server start terminates: _start_drum_server returns, or a
\* setup error is raised.
StartTerminates ==
    <>(pc \in {"init_signals", "raised_DrumCommonException"})

\* C9: for a non-empty data frame of row_count rows and n >= 0,
\* _get_samples_df(df, n) has exactly n rows and its row i (from 0) is source
\* row i mod row_count; so n <= row_count gives the first n rows and n = 0
\* gives no rows.
SamplerRowsExact ==
    s_pc = "returned" =>
        /\ Len(s_ret) = s_samples
        /\ \A i \in 0..(s_samples - 1) : s_ret[i + 1] = s_df[(i % Len(s_df)) + 1]
        /\ (s_samples <= Len(s_df) => s_ret = SubSeq(s_df, 1, s_samples))
        /\ (s_samples = 0 => s_ret = <<>>)

\* C9 witness: a repeat with a non-empty remainder has been returned, over a
\* data frame whose rows differ.
SamplerRepeatReturned ==
    /\ s_pc = "returned"
    /\ s_samples > Len(s_df)
    /\ s_samples % Len(s_df) # 0
    /\ Len(s_df) >= 2
    /\ s_df[1] # s_df[2]

\* C10 as claimed: default mode yields 4 cases with iterations 100, 50, 5, 1
\* and sample counts 1 <= estimate/500 <= estimate/5 <= estimate.
DefaultLadderNonDecreasing ==
    (p_pc = "returned" /\ IsNone(opt_samples) /\ IsNone(opt_iterations)) =>
        /\ Len(test_cases_to_run) = 4
        /\ <<test_cases_to_run[1].iterations, test_cases_to_run[2].iterations,
             test_cases_to_run[3].iterations, test_cases_to_run[4].iterations>>
               = <<100, 50, 5, 1>>
        /\ test_cases_to_run[1].samples = 1
        /\ \A k \in 1..3 :
               test_cases_to_run[k].samples <= test_cases_to_run[k + 1].samples

\* C11: in override mode (samples or iterations supplied, or both)
\* _prepare_test_cases yields exactly one test case; its sample count is the
\* supplied samples, or the row count of the input when samples is not
\* supplied; its iteration count is the supplied iterations, or 1 when
\* iterations is not supplied; and the working sample is the whole input.
OverrideSingleCase ==
    (p_pc = "returned" /\ ~(IsNone(opt_samples) /\ IsNone(opt_iterations))) =>
        /\ Len(test_cases_to_run) = 1
        /\ test_cases_to_run[1].samples =
               (IF IsNone(opt_samples) THEN input_rows ELSE Val(opt_samples))
        /\ test_cases_to_run[1].iterations =
               (IF IsNone(opt_iterations) THEN 1 ELSE Val(opt_iterations))
        /\ df_for_test_rows = Some(input_rows)

\* C11 witness: only iterations was supplied, over an input of several rows,
\* and the planner has returned.
OverrideIterationsOnlyReturned ==
    /\ p_pc = "returned"
    /\ IsNone(opt_samples)
    /\ opt_iterations = Some(3)
    /\ input_rows = 7
    /\ Len(test_cases_to_run) = 1

\* C13 as claimed: a test case whose iterations ended, all completed or
\* stopped on a failed iteration, has had exactly one stats request sent when
\* it ends, and the step that takes the answer of the stats request (or its
\* failure) leaves the case's prediction_ok as it was.
StatsFetchedOncePerCase ==
    [][ /\ stats_sent' <= 1
        /\ ((pc \in {"check_ok", "stats_wait", "exc_print"} /\ pc' = "loop") =>
               stats_sent' = 1)
        /\ ((pc = "stats_wait" /\ pc' # pc) =>
               Last(results').prediction_ok = Last(results).prediction_ok) ]_vars

\* C14 as claimed: the alarm armed for a case fires only inside that case's
\* try block, where the timeout is caught at the case boundary; it never
\* unwinds the run (DrumPerfTestTimeout raised out of performance_test) and
\* never ends the process (SIGALRM with the default disposition).
DeadlineStaysInCase ==
    [][ (alarm_for # 0 /\ alarm_for' = 0) =>
            /\ pc \in TryBody
            /\ alarm_for = tc
            /\ pc' = "exc_timeout_print" ]_vars

\* C12 as claimed: when validation_test has finished, the temporary file of
\* a column variant exists if and only if the variant's scoring subprocess
\* failed (non-zero exit code), and every failing variant is listed with its
\* file.
TempFileKeptIffFailed ==
    v_pc = "returned" =>
        \A c \in 1..v_columns :
            /\ (tmp_dataset_file_path(c) \in v_files) <=> (v_retcodes[c] # 0)
            /\ (v_retcodes[c] # 0) =>
                   \E k \in 1..Len(v_rows2) :
                       v_rows2[k] = <<c, tmp_dataset_file_path(c)>>
====
